---- MODULE Spec2Model ----
(***************************************************************************)
(* Tour-planner backend: the conversation-memory store                     *)
(* (conversation_memory.py), the authentication dependency (auth.py) and   *)
(* the request handlers of main.py that use them.                          *)
(*                                                                         *)
(* Spec      the store's functions called directly, one call at a time.    *)
(* SpecHttp  requests served through the HTTP endpoints; every `await` of  *)
(*           a handler is a point where another request may run.           *)
(***************************************************************************)
EXTENDS Integers, Sequences, FiniteSets, TLC

\* ------------------------------------------------------------------ bounds
MaxTime == 1        \* the clock runs 0..MaxTime
MaxInserts == 2     \* insert_one calls on conversation_history that succeed
MaxLimit == MaxInserts   \* largest limit passed to get_conversation_history

\* ------------------------------------------------------- program constants
\* Both are read from the environment (conversation_memory.py:14-15); the
\* model runs with a retention window of 1 clock unit and a default limit 1.
CONVERSATION_TTL_MINUTES == 1
CONVERSATION_HISTORY_LIMIT == 1

\* ------------------------------------------------------------------ values
\* An email is a sequence of characters, so that str.lower() has work to do.
ToLower == [c \in {"A", "B"} |-> IF c = "A" THEN "a" ELSE "b"]

\* Mutant: the key is used as given.
lower_identity(s) == s

lower(s) == [i \in DOMAIN s |-> IF s[i] \in DOMAIN ToLower THEN ToLower[s[i]] ELSE s[i]]

Emails == {<<"a", "@", "x">>, <<"A", "@", "x">>, <<"b", "@", "x">>}
\* The (role, content) pairs store_message is called with directly.
Turns == {[role |-> "user", content |-> "hi"], [role |-> "assistant", content |-> "hello"]}

None == "None"          \* database is None

\* Optional[datetime]: <<>> is None, <<t>> the time t.
NoTime == <<>>
Some(t) == <<t>>

VARIABLES
  database,              \* database.py global: None, or the handle "db"
  conversation_history,  \* the collection, documents in insertion order
  indexes,               \* index specifications the collection holds
  now,                   \* the clock datetime.utcnow() reads
  next_id,               \* the next _id insert_one hands out
  pending,               \* a get_conversation_stats call between its two driver calls
  ret,                   \* the last direct call of a store function and its result
  users,                 \* the users collection
  llm_model,             \* main.py global: None, or the loaded model
  req,                   \* the requests being served, one per connection
  client,                \* database.py global: 0 for None, or a position of clients
  clients,               \* the AsyncIOMotorClient objects made so far
  lifespan               \* main.py lifespan: where it stands

store_vars == <<conversation_history, indexes, now, next_id>>
call_vars == <<pending, ret>>
http_vars == <<users, llm_model, req>>
boot_vars == <<client, clients, lifespan>>
vars == <<database, conversation_history, indexes, now, next_id, pending, ret,
          users, llm_model, req, client, clients, lifespan>>

\* ----------------------------------------------------------- sequence help
Reverse(s) == [i \in 1..Len(s) |-> s[Len(s) + 1 - i]]

Take(s, n) == SubSeq(s, 1, IF n < Len(s) THEN n ELSE Len(s))

\* The subsequence of s of the elements satisfying Keep(_), order kept.
RECURSIVE SelectIdx(_, _, _)
SelectIdx(s, keep, i) ==
  IF i > Len(s) THEN <<>>
  ELSE (IF i \in keep THEN <<s[i]>> ELSE <<>>) \o SelectIdx(s, keep, i + 1)

\* ------------------------------------------------------- the storage engine
\* A document of conversation_history holds _id (what insert_one adds),
\* user_email, role, content, timestamp and created_at.

\* Indices of the documents matching {"user_email": key}.
Matching(coll, key) == {i \in 1..Len(coll) : coll[i].user_email = key}

\* Mutant: delete_one in place of delete_many.
delete_first(coll, key) ==
  IF Matching(coll, key) = {} THEN coll
  ELSE LET m == CHOOSE i \in Matching(coll, key) : \A j \in Matching(coll, key) : i <= j
       IN  SelectIdx(coll, (1..Len(coll)) \ {m}, 1)

\* Mutant: the filter is dropped, every document is deleted.
delete_many_all(coll, key) == SubSeq(coll, 1, 0)

delete_many(coll, key) == SelectIdx(coll, (1..Len(coll)) \ Matching(coll, key), 1)

count_documents(coll, key) == Cardinality(Matching(coll, key))

\* find(...).sort("timestamp", -1): every order of the matching documents
\* with non-increasing timestamps.  MongoDB leaves the order of documents
\* with equal sort keys unspecified, so each such order is an outcome.
SortedDesc(coll, key) ==
  LET I == Matching(coll, key)
      n == Cardinality(I)
  IN  {p \in [1..n -> I] :
         /\ \A i, j \in 1..n : i # j => p[i] # p[j]
         /\ \A i \in 1..n : \A j \in 1..n :
              i < j => coll[p[i]].timestamp >= coll[p[j]].timestamp}

\* sort=[("timestamp", 1)] with find_one: any document of least timestamp.
Oldest(coll, key) ==
  {i \in Matching(coll, key) :
     \A j \in Matching(coll, key) : coll[i].timestamp <= coll[j].timestamp}

\* The projection {"role": 1, "content": 1, "timestamp": 1, "_id": 0}.
Project(d) == [role |-> d.role, content |-> d.content, timestamp |-> d.timestamp]

\* A document the TTL monitor may remove: created_at + expireAfterSeconds
\* has passed.
Expired(d) == d.created_at + CONVERSATION_TTL_MINUTES <= now

AllIndexes == <<"created_at_ttl", "user_email", "user_email_timestamp">>

\* ------------------------------------------------------ conversation_memory
\* Each function is an operator from its arguments and the outcome of its
\* driver calls to what it returns and what it leaves in the database.
\* "raises" says that the driver call raised.

\* setup_conversation_indexes; created is the number of create_index calls
\* that succeeded before one raised (3: none raised).
\* Mutant: a call drops the indexes it finds before it creates its own.
setup_conversation_indexes_reset(created) ==
  IF database = None THEN [value |-> FALSE, idx |-> indexes]
  ELSE [value |-> (created = Len(AllIndexes)),
        idx   |-> {AllIndexes[k] : k \in 1..created}]

setup_conversation_indexes(created) ==
  IF database = None THEN [value |-> FALSE, idx |-> indexes]
  ELSE [value |-> (created = Len(AllIndexes)),
        idx   |-> indexes \cup {AllIndexes[k] : k \in 1..created}]

\* Mutant: the except branch reports success.
store_message_except_true(user_email, role, content, tick, raises) ==
  [value |-> TRUE, coll |-> conversation_history, clock |-> now, id |-> next_id]

\* Mutant: an append renews created_at on the owner's earlier documents.
store_message_renew(user_email, role, content, tick, raises) ==
  IF database = None \/ raises
  THEN [value |-> FALSE, coll |-> conversation_history, clock |-> now, id |-> next_id]
  ELSE [value |-> TRUE,
        coll  |-> Append([i \in 1..Len(conversation_history) |->
                            IF conversation_history[i].user_email = lower(user_email)
                            THEN [conversation_history[i] EXCEPT !.created_at = now + tick]
                            ELSE conversation_history[i]],
                    [_id        |-> next_id,
                     user_email |-> lower(user_email),
                     role       |-> role,
                     content    |-> content,
                     timestamp  |-> now,
                     created_at |-> now + tick]),
        clock |-> now + tick,
        id    |-> next_id + 1]

\* store_message; tick is how far the clock moved between the two
\* datetime.utcnow() calls that fill "timestamp" and "created_at".
store_message(user_email, role, content, tick, raises) ==
  IF database = None \/ raises
  THEN [value |-> FALSE, coll |-> conversation_history, clock |-> now, id |-> next_id]
  ELSE [value |-> TRUE,
        coll  |-> Append(conversation_history,
                    [_id        |-> next_id,
                     user_email |-> lower(user_email),
                     role       |-> role,
                     content    |-> content,
                     timestamp  |-> now,
                     created_at |-> now + tick]),
        clock |-> now + tick,
        id    |-> next_id + 1]

\* get_conversation_history: the set of results the call may return, one
\* for each order p the sorted cursor may yield the documents in.
get_conversation_history(user_email, limit, raises) ==
  IF database = None \/ raises THEN {[value |-> <<>>, ids |-> <<>>]}
  ELSE {LET messages == Reverse(Take(p, limit))
        IN  [value |-> [i \in 1..Len(messages) |-> Project(conversation_history[messages[i]])],
             ids   |-> [i \in 1..Len(messages) |-> conversation_history[messages[i]]._id]] :
        p \in SortedDesc(conversation_history, lower(user_email))}

\* clear_conversation_history; deleted is result.deleted_count, which it logs.
clear_conversation_history(user_email, raises) ==
  IF database = None \/ raises
  THEN [value |-> FALSE, coll |-> conversation_history, deleted |-> 0]
  ELSE [value   |-> TRUE,
        coll    |-> delete_many(conversation_history, lower(user_email)),
        deleted |-> count_documents(conversation_history, lower(user_email))]

\* get_conversation_stats makes two driver calls, count_documents and then
\* find_one; other work may run between them.
stats_count(user_email) == count_documents(conversation_history, lower(user_email))

\* What find_one(..., sort=[("timestamp", 1)]) may return: a timestamp, or None.
stats_oldest(user_email) ==
  LET O == Oldest(conversation_history, lower(user_email))
  IN  IF O = {} THEN {NoTime} ELSE {Some(conversation_history[i].timestamp) : i \in O}

get_conversation_stats(count, oldest, raises) ==
  IF database = None \/ raises THEN [message_count |-> 0, oldest_message |-> NoTime]
  ELSE [message_count |-> count, oldest_message |-> oldest]

\* ------------------------------------------------------------ HTTP values
Conns == {1}

Msg(role, content) == [role |-> role, content |-> content]

\* The request bodies of POST /v1/chat/completions: lists of ChatMessage.
Bodies ==
  {<<Msg("user", "hi")>>,
   <<Msg("system", "be brief"), Msg("user", "from P to Q")>>,
   <<Msg("user", "from Q to P"), Msg("assistant", "hello"), Msg("user", "from P to Q")>>}

\* What a request carries as credentials: no Authorization header, a token
\* jwt.decode rejects, or a token that verifies, with its "sub" claim
\* (<<>>: no such claim).
NoHeader == [kind |-> "none", sub |-> <<>>]
BadToken == [kind |-> "bad", sub |-> <<>>]
Token(sub) == [kind |-> "jwt", sub |-> sub]
Tokens == {NoHeader, BadToken, Token(<<>>), Token(<<"A", "@", "x">>), Token(<<"b", "@", "x">>)}

\* No document waits for its insert_one.
NoDoc == [_id |-> 0, user_email |-> <<>>, role |-> "", content |-> "",
          timestamp |-> 0, created_at |-> 0]

\* MapRequest: origin, destination and the Optional[int] zoom (<<>> is None,
\* <<z>> the level z); size keeps its default.
MapRequest(origin, destination, zoom) ==
  [origin |-> origin, destination |-> destination, zoom |-> zoom, size |-> "600x400"]

NoMap == MapRequest("", "", <<>>)

\* The zoom levels requests carry: none, the ends of the range, one inside,
\* one below and one above.
Zooms == {<<>>, <<0>>, <<1>>, <<10>>, <<21>>, <<22>>}

MapRequests == {MapRequest("P", "Q", zoom) : zoom \in Zooms}

\* What Google Maps is to one call: GOOGLE_MAPS_API_KEY is set or not, and
\* get_directions returns None, a route without a polyline, or a route.
Directions == {"none", "no_polyline", "polyline"}

NoMaps == [key |-> FALSE, directions |-> "none"]

\* The body of an answer: a MapResponse, or the detail of an HTTPException.
Response(map_image_url, zoom_level, origin, destination, detail) ==
  [map_image_url |-> map_image_url, zoom_level |-> zoom_level, origin |-> origin,
   destination |-> destination, detail |-> detail]

NoResponse == Response(<<>>, <<>>, "", "", "")

Idle == [pc |-> "idle", kind |-> "none", token |-> NoHeader, body |-> <<>>,
         user_email |-> <<>>, history |-> <<>>, journey |-> <<>>, all_messages |-> <<>>,
         i |-> 0, doc |-> NoDoc, stores |-> <<>>, prompt |-> <<>>,
         success |-> FALSE, invoked |-> FALSE, status |-> 0,
         map |-> NoMap, maps |-> NoMaps, response |-> NoResponse, email |-> <<>>]

\* ------------------------------------------------------------ direct calls
\* ret.n is the number the call logs (documents retrieved, documents deleted).
NoCall == [op |-> "none", email |-> <<>>, limit |-> 0, raised |-> FALSE,
           value |-> FALSE, ids |-> <<>>, n |-> 0]

NoPending == [active |-> FALSE, email |-> <<>>, count |-> 0]

Call(op, email, limit, raised, value, ids, n) ==
  [op |-> op, email |-> email, limit |-> limit, raised |-> raised,
   value |-> value, ids |-> ids, n |-> n]

\* ------------------------------------------------------------- lifespan
\* MONGODB_URL as connect_to_mongo tells it apart: a mongodb+srv:// URL, a
\* mongodb:// URL that names mongodb.net, any other URL.
Urls == {"mongodb+srv", "mongodb.net", "localhost"}

\* The lifespan while the application serves. value is what connect_to_mongo
\* returned; model tells how the model loading went.
Serving == [pc |-> "serving", url |-> "localhost", strategy |-> 0,
            value |-> <<>>, model |-> "none"]

\* What the startup of the lifespan has left when requests are served: with
\* a database handle there is the client it was taken from.
Booted ==
  /\ clients = IF database = None THEN <<>> ELSE <<[strategy |-> "plain", open |-> TRUE, pinged |-> TRUE]>>
  /\ client = Len(clients)
  /\ lifespan = [Serving EXCEPT !.value = <<database # None>>]

\* The call did its work: there was a database and no driver call raised.
Ok(r) == r.op # "none" /\ database # None /\ ~r.raised

Init ==
  /\ database \in {None, "db"}
  /\ conversation_history = <<>>
  /\ indexes = {}
  /\ now = 0
  /\ next_id = 1
  /\ pending = NoPending
  /\ ret = NoCall
  /\ users = <<>>
  /\ llm_model = None
  /\ req = [r \in Conns |-> Idle]
  /\ Booted

CallSetup(created) ==
  /\ ~pending.active /\ ret.op = "none"
  /\ LET out == setup_conversation_indexes(created)
     IN  /\ indexes' = out.idx
         /\ ret' = Call("setup", <<>>, 0, created < Len(AllIndexes), out.value, <<>>, 0)
  /\ UNCHANGED <<database, boot_vars, conversation_history, now, next_id, pending, http_vars>>

CallStore(e, role, content, tick, raises) ==
  /\ ~pending.active /\ ret.op = "none"
  /\ LET out == store_message(e, role, content, tick, raises)
     IN  /\ out.id <= MaxInserts + 1
         /\ out.clock <= MaxTime
         /\ conversation_history' = out.coll
         /\ now' = out.clock
         /\ next_id' = out.id
         /\ ret' = Call("store", e, 0, raises, out.value, <<>>, 0)
  /\ UNCHANGED <<database, boot_vars, indexes, pending, http_vars>>

CallGet(e, limit, raises) ==
  /\ ~pending.active /\ ret.op = "none"
  /\ \E out \in get_conversation_history(e, limit, raises) :
       ret' = Call("get", e, limit, raises, out.value, out.ids, Len(out.value))
  /\ UNCHANGED <<database, boot_vars, store_vars, pending, http_vars>>

CallClear(e, raises) ==
  /\ ~pending.active /\ ret.op = "none"
  /\ LET out == clear_conversation_history(e, raises)
     IN  /\ conversation_history' = out.coll
         /\ ret' = Call("clear", e, 0, raises, out.value, <<>>, out.deleted)
  /\ UNCHANGED <<database, boot_vars, indexes, now, next_id, pending, http_vars>>

\* get_conversation_stats up to its first await: it returns at once when
\* there is no database or count_documents raises.
CallStatsCount(e, raises) ==
  /\ ~pending.active /\ ret.op = "none"
  /\ IF database = None \/ raises
     THEN /\ ret' = Call("stats", e, 0, raises, get_conversation_stats(0, NoTime, raises), <<>>, 0)
          /\ UNCHANGED pending
     ELSE /\ pending' = [active |-> TRUE, email |-> e, count |-> stats_count(e)]
          /\ ret' = NoCall
  /\ UNCHANGED <<database, boot_vars, store_vars, http_vars>>

\* ... and from find_one to its return.
CallStatsOldest(raises) ==
  /\ pending.active /\ ret.op = "none"
  /\ \E oldest \in stats_oldest(pending.email) :
       ret' = Call("stats", pending.email, 0, raises,
                   get_conversation_stats(pending.count, oldest, raises), <<>>, 0)
  /\ pending' = NoPending
  /\ UNCHANGED <<database, boot_vars, store_vars, http_vars>>

\* The caller takes the result; the next call can start.
Return ==
  /\ ret.op # "none"
  /\ ret' = NoCall
  /\ UNCHANGED <<database, boot_vars, store_vars, pending, http_vars>>

\* ------------------------------------------------------------- environment
\* Time passes.
Tick ==
  /\ now < MaxTime
  /\ now' = now + 1
  /\ ret' = NoCall
  /\ UNCHANGED <<database, boot_vars, conversation_history, indexes, next_id, pending, http_vars>>

\* MongoDB's TTL monitor: a pass removes the expired documents of a
\* collection that has the TTL index.
Reap ==
  /\ "created_at_ttl" \in indexes
  /\ \E i \in 1..Len(conversation_history) : Expired(conversation_history[i])
  /\ conversation_history' =
       SelectIdx(conversation_history,
                 {i \in 1..Len(conversation_history) : ~Expired(conversation_history[i])}, 1)
  /\ ret' = NoCall
  /\ UNCHANGED <<database, boot_vars, indexes, now, next_id, pending, http_vars>>

Next ==
  \/ \E created \in 0..Len(AllIndexes) : CallSetup(created)
  \/ \E e \in Emails, t \in Turns, tick \in {0, 1}, raises \in BOOLEAN :
       CallStore(e, t.role, t.content, tick, raises)
  \/ \E e \in Emails, limit \in 1..MaxLimit, raises \in BOOLEAN : CallGet(e, limit, raises)
  \/ \E e \in Emails, raises \in BOOLEAN : CallClear(e, raises)
  \/ \E e \in Emails, raises \in BOOLEAN : CallStatsCount(e, raises)
  \/ \E raises \in BOOLEAN : CallStatsOldest(raises)
  \/ Return
  \/ Tick
  \/ Reap

Spec == Init /\ [][Next]_vars

\* store_message takes role as a str and writes it as passed: the calls any
\* caller of the module can make, with a role of the record layout or not.
Roles == {"user", "assistant", "system"}

NextRoles ==
  \/ \E created \in 0..Len(AllIndexes) : CallSetup(created)
  \/ \E e \in Emails, role \in Roles, tick \in {0, 1}, raises \in BOOLEAN :
       CallStore(e, role, "hi", tick, raises)
  \/ Return
  \/ Tick
  \/ Reap

SpecRoles == Init /\ [][NextRoles]_vars

\* ==================================================================== HTTP
\* ---------------------------------------------------------------- auth.py
\* find_one({"email": ...}) on users: the first matching document, 0 if none.
find_user(email) ==
  IF \E k \in 1..Len(users) : users[k].email = email
  THEN CHOOSE k \in 1..Len(users) :
         /\ users[k].email = email
         /\ \A j \in 1..Len(users) : users[j].email = email => k <= j
  ELSE 0

\* get_user_by_email: the user's index in users, 0 for None.
get_user_by_email(email, raises) ==
  IF database = None \/ raises THEN 0 ELSE find_user(lower(email))

\* Mutant: a token whose "sub" names no stored user is served as the first
\* stored user.
get_current_user_any_sub(token, raises) ==
  IF token.kind # "jwt" THEN 0
  ELSE IF token.sub = <<>> THEN 0
  ELSE IF database = None \/ raises THEN 0
  ELSE IF find_user(lower(token.sub)) = 0 THEN 1
  ELSE find_user(lower(token.sub))

\* get_current_user (with the OAuth2PasswordBearer dependency before it):
\* the user's index in users, 0 when it raises the 401 exception.
get_current_user(token, raises) ==
  IF token.kind # "jwt" THEN 0
  ELSE IF token.sub = <<>> THEN 0
  ELSE get_user_by_email(token.sub, raises)

\* ---------------------------------------------------------------- main.py
SystemPrompt == Msg("system", "TRAVEL_AGENT_SYSTEM_PROMPT")
\* The system message built from the journey summary of one user message.
JourneyMsg(content) ==
  Msg("system", IF content = "from P to Q" THEN "[JOURNEY DATA FROM GOOGLE MAPS] P to Q"
                ELSE "[JOURNEY DATA FROM GOOGLE MAPS] Q to P")

\* extract_locations_from_text finds an origin and a destination.
HasLocations(content) == content \in {"from P to Q", "from Q to P"}

\* The user messages of a body for which the journey lookup is made.
Located(body) ==
  {k \in 1..Len(body) : body[k].role = "user" /\ HasLocations(body[k].content)}

\* What format_journey_summary does for one message: "ok" a summary, "none"
\* it returns None, "raise" parse_journey_data raises.
Journeys == {"ok", "none", "raise"}

\* The enrichment loop: the system messages it appends, in request order.
RECURSIVE Enrichment(_, _, _)
Enrichment(body, journey, k) ==
  IF k > Len(body) THEN <<>>
  ELSE (IF k \in Located(body) /\ journey[k] = "ok"
        THEN <<JourneyMsg(body[k].content)>> ELSE <<>>)
         \o Enrichment(body, journey, k + 1)

\* Mutant: the loop stores every message of the request.
NextUser_any(body, k) == IF k < Len(body) THEN k + 1 ELSE 0

\* The index of the first user message of body after position k, 0 if none.
NextUser(body, k) ==
  IF \E j \in (k + 1)..Len(body) : body[j].role = "user"
  THEN CHOOSE j \in (k + 1)..Len(body) :
         /\ body[j].role = "user"
         /\ \A h \in (k + 1)..Len(body) : body[h].role = "user" => j <= h
  ELSE 0

Finish(q, status) == [q EXCEPT !.pc = "done", !.status = status]

\* A client sends a request on a connection that has none in flight.
Send(r, kind, token, body) ==
  /\ req[r].pc \in {"idle", "done"}
  /\ req' = [req EXCEPT ![r] = [Idle EXCEPT !.pc = "auth", !.kind = kind,
                                            !.token = token, !.body = body]]
  /\ UNCHANGED <<database, boot_vars, store_vars, call_vars, users, llm_model>>

\* Depends(get_current_user), up to the return of its await.
Auth(r, raises) ==
  /\ req[r].pc = "auth"
  /\ LET u == get_current_user(req[r].token, raises)
     IN  req' = [req EXCEPT ![r] =
                   IF u = 0 THEN Finish(@, 401)
                   ELSE [@ EXCEPT !.pc = req[r].kind, !.user_email = users[u].email]]
  /\ UNCHANGED <<database, boot_vars, store_vars, call_vars, users, llm_model>>

\* Mutant: the request's messages are put before the stored history.
AllMessages_request_first(history, body, journey) ==
  <<SystemPrompt>> \o body
    \o [k \in 1..Len(history) |-> Msg(history[k].role, history[k].content)]
    \o Enrichment(body, journey, 1)

\* all_messages as chat_completions builds it: the system prompt, one
\* ChatMessage per history record, what the enrichment loop appended, and
\* request.messages.
AllMessages(history, body, journey) ==
  <<SystemPrompt>>
    \o [k \in 1..Len(history) |-> Msg(history[k].role, history[k].content)]
    \o Enrichment(body, journey, 1)
    \o body

\* format_messages_for_llama: the prompt as its list of segments, one per
\* message of role system, user or assistant (a message of another role adds
\* nothing), closed by the open assistant header. bot: the segment starts
\* with begin_of_text; eot: it ends with eot_id.
RECURSIVE Segments(_, _, _)
Segments(messages, k, is_first_message) ==
  IF k > Len(messages) THEN <<>>
  ELSE IF messages[k].role \in {"system", "user", "assistant"}
       THEN <<[role |-> messages[k].role, content |-> messages[k].content,
               bot |-> (is_first_message /\ messages[k].role = "system"),
               eot |-> TRUE]>>
              \o Segments(messages, k + 1, FALSE)
       ELSE Segments(messages, k + 1, is_first_message)

format_messages_for_llama(messages) ==
  Segments(messages, 1, TRUE)
    \o <<[role |-> "assistant", content |-> "", bot |-> FALSE, eot |-> FALSE]>>

\* chat_completions from its start to the end of the enrichment loop and of
\* all_messages.extend: the model check, the history read, the assembly.
ChatRead(r, raises, journey) ==
  /\ req[r].pc = "chat"
  /\ IF llm_model = None
     THEN req' = [req EXCEPT ![r] = Finish(@, 503)]
     ELSE \E history \in get_conversation_history(req[r].user_email,
                                                  CONVERSATION_HISTORY_LIMIT, raises) :
            LET body == req[r].body
            IN  req' = [req EXCEPT ![r] =
                  IF \E k \in Located(body) : journey[k] = "raise"
                  THEN Finish([@ EXCEPT !.history = history.value, !.journey = journey], 500)
                  ELSE [@ EXCEPT
                          !.history = history.value,
                          !.journey = journey,
                          !.all_messages = AllMessages(history.value, body, journey),
                          !.i = NextUser(body, 0),
                          !.pc = IF NextUser(body, 0) = 0 THEN "generate" ELSE "store"]]
  /\ UNCHANGED <<database, boot_vars, store_vars, call_vars, users, llm_model>>

\* Mutant: a store_message that returned False ends the request.
AfterStore_abort(q, value) ==
  IF value
  THEN [q EXCEPT !.stores = Append(@, [content |-> q.body[q.i].content, value |-> value]),
                 !.i = NextUser(q.body, q.i),
                 !.pc = IF NextUser(q.body, q.i) = 0 THEN "generate" ELSE "store"]
  ELSE Finish([q EXCEPT !.stores = Append(@, [content |-> q.body[q.i].content,
                                              value |-> value])], 500)

\* The request after one await store_message(...): what it returned is not
\* looked at, the loop goes on to the next user message or ends.
AfterStore(q, value) ==
  [q EXCEPT !.stores = Append(@, [content |-> q.body[q.i].content, value |-> value]),
            !.i = NextUser(q.body, q.i),
            !.pc = IF NextUser(q.body, q.i) = 0 THEN "generate" ELSE "store"]

\* One turn of the loop that stores the request's user messages.
ChatStore(r, tick, raises) ==
  /\ req[r].pc = "store"
  /\ LET q == req[r]
         out == store_message(q.user_email, "user", q.body[q.i].content, tick, raises)
     IN  /\ out.id <= MaxInserts + 1
         /\ out.clock <= MaxTime
         /\ conversation_history' = out.coll
         /\ now' = out.clock
         /\ next_id' = out.id
         /\ req' = [req EXCEPT ![r] = AfterStore(q, out.value)]
  /\ UNCHANGED <<database, boot_vars, indexes, call_vars, users, llm_model>>

\* Mutant: a failed invocation takes the request's stored turns back out.
ChatGenerate_rollback(r, model_raises) ==
  /\ req[r].pc = "generate"
  /\ req' = [req EXCEPT ![r] =
               Finish([@ EXCEPT !.prompt = format_messages_for_llama(req[r].all_messages),
                                !.invoked = TRUE],
                      IF model_raises THEN 500 ELSE 200)]
  /\ conversation_history' =
       IF model_raises
       THEN SelectIdx(conversation_history,
                      {i \in 1..Len(conversation_history) :
                         ~(/\ conversation_history[i].user_email = req[r].user_email
                           /\ \E k \in 1..Len(req[r].stores) :
                                conversation_history[i].content = req[r].stores[k].content)}, 1)
       ELSE conversation_history
  /\ UNCHANGED <<database, boot_vars, indexes, now, next_id, call_vars, users, llm_model>>

\* The model is invoked and the response built; the invocation may raise.
ChatGenerate(r, model_raises) ==
  /\ req[r].pc = "generate"
  /\ req' = [req EXCEPT ![r] =
               Finish([@ EXCEPT !.prompt = format_messages_for_llama(req[r].all_messages),
                                !.invoked = TRUE],
                      IF model_raises THEN 500 ELSE 200)]
  /\ UNCHANGED <<database, boot_vars, store_vars, call_vars, users, llm_model>>

\* clear_conversations.
ClearConversations(r, raises) ==
  /\ req[r].pc = "clear"
  /\ LET out == clear_conversation_history(req[r].user_email, raises)
     IN  /\ conversation_history' = out.coll
         /\ req' = [req EXCEPT ![r] =
                      Finish([@ EXCEPT !.success = out.value],
                             IF out.value THEN 200 ELSE 500)]
  /\ UNCHANGED <<database, boot_vars, indexes, now, next_id, call_vars, users, llm_model>>

\* ------------------------------------------------- google_maps_service.py
\* The parameters of generate_map_image_url.
generate_map_image_url_parameters == {"origin", "destination", "size"}

\* A call is bound to the function: a keyword that names no parameter makes
\* the call raise TypeError before the body runs.
Binds(keywords) == keywords \subseteq generate_map_image_url_parameters

\* The URL as the list of its query parameters; <<>> is None.
generate_map_image_url(origin, destination, size, key, directions) ==
  IF ~key THEN <<>>
  ELSE <<[name |-> "size", value |-> <<size>>],
         [name |-> "markers", value |-> <<"color:green", "label:A", origin>>],
         [name |-> "markers", value |-> <<"color:red", "label:B", destination>>],
         IF directions = "polyline"
         THEN [name |-> "path", value |-> <<"weight:3", "color:0x0000ff", "enc:polyline">>]
         ELSE [name |-> "path", value |-> <<"weight:3", "color:blue", "enc:">>],
         [name |-> "key", value |-> <<"GOOGLE_MAPS_API_KEY">>]>>

\* ----------------------------------------------------------------- main.py
\* A client sends POST /v1/map/generate.
SendMap(r, token, map) ==
  /\ req[r].pc \in {"idle", "done"}
  /\ req' = [req EXCEPT ![r] = [Idle EXCEPT !.pc = "auth", !.kind = "map",
                                            !.token = token, !.map = map]]
  /\ UNCHANGED <<database, boot_vars, store_vars, call_vars, users, llm_model>>

\* generate_map: the zoom check, the call of generate_map_image_url with
\* the keywords origin, destination, size and zoom, the MapResponse; an
\* HTTPException is raised again, any other exception becomes a 500.
generate_map(q, key, directions) ==
  LET z == q.map.zoom
      seen == [q EXCEPT !.maps = [key |-> key, directions |-> directions]]
  IN  IF z # <<>> /\ (z[1] < 1 \/ z[1] > 21)
      THEN Finish([seen EXCEPT !.response.detail = "Zoom level must be between 1 and 21"],
                  400)
      ELSE IF ~Binds({"origin", "destination", "size", "zoom"})
      THEN Finish([seen EXCEPT !.response.detail = "TypeError"], 500)
      ELSE LET map_url == generate_map_image_url(q.map.origin, q.map.destination,
                                                 q.map.size, key, directions)
           IN  IF map_url = <<>>
               THEN Finish([seen EXCEPT
                              !.response.detail = "Failed to generate map image URL"], 500)
               ELSE Finish([seen EXCEPT
                              !.response = Response(map_url, z, q.map.origin,
                                                    q.map.destination, "")], 200)

GenerateMap(r, key, directions) ==
  /\ req[r].pc = "map"
  /\ req' = [req EXCEPT ![r] = generate_map(req[r], key, directions)]
  /\ UNCHANGED <<database, boot_vars, store_vars, call_vars, users, llm_model>>

\* completions: the model check, the invocation, the response.
Completions(r, model_raises) ==
  /\ req[r].pc = "completions"
  /\ req' = [req EXCEPT ![r] =
               IF llm_model = None THEN Finish(@, 503)
               ELSE Finish([@ EXCEPT !.invoked = TRUE], IF model_raises THEN 500 ELSE 200)]
  /\ UNCHANGED <<database, boot_vars, store_vars, call_vars, users, llm_model>>

\* ---------------------------------------------------------------- auth.py
\* get_current_user_info: the UserResponse of the caller.
GetCurrentUserInfo(r) ==
  /\ req[r].pc = "me"
  /\ req' = [req EXCEPT ![r] = Finish([@ EXCEPT !.email = req[r].user_email], 200)]
  /\ UNCHANGED <<database, boot_vars, store_vars, call_vars, users, llm_model>>

\* The state the lifespan leaves when it starts serving: connect_to_mongo
\* has set database or not, setup_conversation_indexes has run once, the
\* model is loaded or not; the users collection holds one account.
InitHttp ==
  /\ database \in {None, "db"}
  /\ conversation_history = <<>>
  /\ \E created \in {0, Len(AllIndexes)} :
       indexes = IF database = None THEN {} ELSE {AllIndexes[k] : k \in 1..created}
  /\ now = 0
  /\ next_id = 1
  /\ pending = NoPending
  /\ ret = NoCall
  /\ users = <<[email |-> <<"a", "@", "x">>]>>
  /\ llm_model \in {None, "llm"}
  /\ req = [r \in Conns |-> Idle]
  /\ Booted

NextHttp ==
  \/ \E r \in Conns, token \in Tokens :
       \/ \E body \in Bodies : Send(r, "chat", token, body)
       \/ Send(r, "clear", token, <<>>)
  \/ \E r \in Conns, raises \in BOOLEAN : Auth(r, raises)
  \/ \E r \in Conns, raises \in BOOLEAN :
       \E journey \in [Located(req[r].body) -> Journeys] : ChatRead(r, raises, journey)
  \/ \E r \in Conns, tick \in {0, 1}, raises \in BOOLEAN : ChatStore(r, tick, raises)
  \/ \E r \in Conns, model_raises \in BOOLEAN : ChatGenerate(r, model_raises)
  \/ \E r \in Conns, raises \in BOOLEAN : ClearConversations(r, raises)
  \/ Tick
  \/ Reap

SpecHttp == InitHttp /\ [][NextHttp]_vars

\* The five endpoints behind Depends(get_current_user), one request at a
\* time.
ApiBodies == {<<Msg("user", "hi")>>}

NextApi ==
  \/ \E r \in Conns, token \in Tokens :
       \/ \E body \in ApiBodies : Send(r, "chat", token, body)
       \/ \E kind \in {"completions", "clear", "me"} : Send(r, kind, token, <<>>)
       \/ \E map \in MapRequests : SendMap(r, token, map)
  \/ \E r \in Conns, raises \in BOOLEAN : Auth(r, raises)
  \/ \E r \in Conns, raises \in BOOLEAN :
       \E journey \in [Located(req[r].body) -> Journeys] : ChatRead(r, raises, journey)
  \/ \E r \in Conns, tick \in {0, 1}, raises \in BOOLEAN : ChatStore(r, tick, raises)
  \/ \E r \in Conns, model_raises \in BOOLEAN : ChatGenerate(r, model_raises)
  \/ \E r \in Conns, model_raises \in BOOLEAN : Completions(r, model_raises)
  \/ \E r \in Conns, key \in BOOLEAN, directions \in Directions :
       GenerateMap(r, key, directions)
  \/ \E r \in Conns, raises \in BOOLEAN : ClearConversations(r, raises)
  \/ \E r \in Conns : GetCurrentUserInfo(r)
  \/ Tick
  \/ Reap

SpecApi == InitHttp /\ [][NextApi]_vars


\* ------------------------------------------- generate_map_image_url alone
\* A caller outside the endpoints calls generate_map_image_url(origin,
\* destination) or generate_map_image_url(origin, destination, zoom=z), one
\* call after another; ret holds the last call and its URL, or that it raised.
Places == {"P", "Q"}

CallMapUrl(origin, destination, zoom, key, directions) ==
  /\ ~pending.active
  /\ LET raised == ~Binds(IF zoom = <<>> THEN {} ELSE {"zoom"})
     IN  ret' = [op |-> "map_url", origin |-> origin, destination |-> destination,
                 zoom |-> zoom, key |-> key, directions |-> directions,
                 raised |-> raised,
                 value |-> IF raised THEN <<>>
                           ELSE generate_map_image_url(origin, destination, "600x400",
                                                       key, directions)]
  /\ UNCHANGED <<database, boot_vars, store_vars, pending, http_vars>>

NextMapUrl ==
  \E origin \in Places, destination \in Places, zoom \in Zooms,
     key \in BOOLEAN, directions \in Directions :
    CallMapUrl(origin, destination, zoom, key, directions)

SpecMapUrl == Init /\ [][NextMapUrl]_vars

\* ------------------------------------------------- requests in parallel
\* Two chat requests in flight at once, one per connection. Each await of a handler is a point
\* where the other handler runs; store_message has one between the clock
\* readings that fill its document and the completion of insert_one, so it
\* takes two steps here.
ConcConns == {1, 2}

ConcTokens == {Token(<<"a", "@", "x">>), Token(<<"b", "@", "x">>)}

ConcBodies == {<<Msg("user", "hi")>>, <<Msg("user", "hi"), Msg("user", "from P to Q")>>}

\* Mutant: a document replaces the last one when both carry the same owner
\* and timestamp.
insert_one_last_wins(coll, doc) ==
  IF /\ Len(coll) > 0
     /\ coll[Len(coll)].user_email = doc.user_email
     /\ coll[Len(coll)].timestamp = doc.timestamp
  THEN [coll EXCEPT ![Len(coll)] = doc]
  ELSE Append(coll, doc)

\* insert_one: the document is added to the collection.
insert_one(coll, doc) == Append(coll, doc)

\* store_message up to its await: the database check and the document.
ChatStoreBuild(r, tick) ==
  /\ req[r].pc = "store"
  /\ now + tick <= MaxTime
  /\ LET q == req[r]
     IN  IF database = None
         THEN /\ req' = [req EXCEPT ![r] = AfterStore(q, FALSE)]
              /\ now' = now
         ELSE /\ req' = [req EXCEPT ![r] =
                           [q EXCEPT !.pc = "insert",
                                     !.doc = [_id        |-> 0,
                                              user_email |-> lower(q.user_email),
                                              role       |-> "user",
                                              content    |-> q.body[q.i].content,
                                              timestamp  |-> now,
                                              created_at |-> now + tick]]]
              /\ now' = now + tick
  /\ UNCHANGED <<database, boot_vars, conversation_history, indexes, next_id, call_vars,
                 users, llm_model>>

\* ... and from the completion of insert_one to its return.
ChatStoreInsert(r, raises) ==
  /\ req[r].pc = "insert"
  /\ LET q == req[r]
     IN  IF raises
         THEN /\ req' = [req EXCEPT ![r] = AfterStore([q EXCEPT !.doc = NoDoc], FALSE)]
              /\ UNCHANGED <<conversation_history, next_id>>
         ELSE /\ next_id <= MaxInserts
              /\ conversation_history' =
                   insert_one(conversation_history, [q.doc EXCEPT !._id = next_id])
              /\ next_id' = next_id + 1
              /\ req' = [req EXCEPT ![r] = AfterStore([q EXCEPT !.doc = NoDoc], TRUE)]
  /\ UNCHANGED <<database, boot_vars, indexes, now, call_vars, users, llm_model>>

InitConc ==
  /\ database = "db"
  /\ conversation_history = <<>>
  /\ indexes = {AllIndexes[k] : k \in 1..Len(AllIndexes)}
  /\ now = 0
  /\ next_id = 1
  /\ pending = NoPending
  /\ ret = NoCall
  /\ users = <<[email |-> <<"a", "@", "x">>], [email |-> <<"b", "@", "x">>]>>
  /\ llm_model = "llm"
  /\ req = [r \in ConcConns |-> Idle]
  /\ Booted

NextConc ==
  \/ \E r \in ConcConns, token \in ConcTokens, body \in ConcBodies :
       req[r].pc = "idle" /\ Send(r, "chat", token, body)
  \/ \E r \in ConcConns : Auth(r, FALSE)
  \/ \E r \in ConcConns, raises \in BOOLEAN :
       ChatRead(r, raises, [k \in Located(req[r].body) |-> "none"])
  \/ \E r \in ConcConns, tick \in {0, 1} : ChatStoreBuild(r, tick)
  \/ \E r \in ConcConns, raises \in BOOLEAN : ChatStoreInsert(r, raises)
  \/ \E r \in ConcConns : ChatGenerate(r, FALSE)
  \/ Tick
  \/ Reap

SpecConc == InitConc /\ [][NextConc]_vars

\* ----------------------------------------------------- signups in parallel
\* POST /auth/signup, one request per connection, both in flight at once.
\* create_user awaits twice, get_user_by_email and insert_one: each is a step
\* at which the other request runs. The lookups succeed here, so that what
\* is seen comes from the interleaving alone.
SignupEmails == {<<"a", "@", "x">>, <<"A", "@", "x">>, <<"b", "@", "x">>}

SendSignup(r, email) ==
  /\ req[r].pc = "idle"
  /\ req' = [req EXCEPT ![r] = [Idle EXCEPT !.pc = "signup", !.kind = "signup",
                                            !.email = email]]
  /\ UNCHANGED <<database, boot_vars, store_vars, call_vars, users, llm_model>>

\* create_user up to the return of await get_user_by_email(...): 503 without
\* a database, 400 when a user was found, the insert comes next otherwise.
CreateUserCheck(r, raises) ==
  /\ req[r].pc = "signup"
  /\ req' = [req EXCEPT ![r] =
               IF database = None THEN Finish(@, 503)
               ELSE IF get_user_by_email(req[r].email, raises) # 0
               THEN Finish([@ EXCEPT !.response.detail = "Email already registered"], 400)
               ELSE [@ EXCEPT !.pc = "insert"]]
  /\ UNCHANGED <<database, boot_vars, store_vars, call_vars, users, llm_model>>

\* create_user from the lower-casing to the end of signup: insert_one adds
\* the user and the answer is 201; if it raises signup answers 500.
CreateUserInsert(r, raises) ==
  /\ req[r].pc = "insert"
  /\ users' = IF raises THEN users ELSE Append(users, [email |-> lower(req[r].email)])
  /\ req' = [req EXCEPT ![r] = Finish(@, IF raises THEN 500 ELSE 201)]
  /\ UNCHANGED <<database, boot_vars, store_vars, call_vars, llm_model>>

InitSignup ==
  /\ database \in {None, "db"}
  /\ conversation_history = <<>>
  /\ indexes = IF database = None THEN {} ELSE {AllIndexes[k] : k \in 1..Len(AllIndexes)}
  /\ now = 0
  /\ next_id = 1
  /\ pending = NoPending
  /\ ret = NoCall
  /\ users = <<>>
  /\ llm_model = "llm"
  /\ req = [r \in ConcConns |-> Idle]
  /\ Booted

NextSignup ==
  \/ \E r \in ConcConns, email \in SignupEmails : SendSignup(r, email)
  \/ \E r \in ConcConns : CreateUserCheck(r, FALSE)
  \/ \E r \in ConcConns, raises \in BOOLEAN : CreateUserInsert(r, raises)

SpecSignup == InitSignup /\ [][NextSignup]_vars

\* ================================================================ lifespan
\* ------------------------------------------------------------- database.py
\* The connection attempts connect_to_mongo makes for a URL, in the order of
\* its nested try blocks: approaches 1, 2, 3, 3b (a mongodb+srv URL only)
\* and 4 for an Atlas URL, the one plain attempt for any other.
Strategies(url) ==
  IF url = "mongodb+srv"
  THEN <<"tlsAllowInvalidCertificates", "tlsInsecure", "tls_in_url", "standard_url",
         "tlsCAFile">>
  ELSE IF url = "mongodb.net"
  THEN <<"tlsAllowInvalidCertificates", "tlsInsecure", "tls_in_url", "tlsCAFile">>
  ELSE <<"plain">>

\* The names locals() holds inside connect_to_mongo: what the function
\* assigns, without client and database, which it declares global.
connect_to_mongo_locals ==
  {"connection_kwargs", "parsed", "query_params", "new_query", "modified_url",
   "standard_url", "parsed_std", "query_params_std", "new_query_std", "final_url",
   "e1", "e2", "e3", "e3b", "e4"}

\* An except block of an Atlas attempt:
\* if 'client' in locals() and client is not None: client.close().
close_failed(cs, c) ==
  IF "client" \in connect_to_mongo_locals /\ c # 0
  THEN [cs EXCEPT ![c].open = FALSE]
  ELSE cs

\* One attempt of connect_to_mongo. made: AsyncIOMotorClient(...) returned a
\* client, which is assigned to the global; pinged: the ping succeeded.
\* After a failed attempt the next one is made; after the last the exception
\* reaches the outer handler and the function returns False.
connect_to_mongo(made, pinged) ==
  /\ lifespan.pc = "connect"
  /\ made \/ ~pinged
  /\ LET S  == Strategies(lifespan.url)
         k  == lifespan.strategy
         cs == IF made
               THEN Append(clients, [strategy |-> S[k], open |-> TRUE, pinged |-> pinged])
               ELSE clients
         c  == IF made THEN Len(cs) ELSE client
     IN  /\ client' = c
         /\ IF pinged
            THEN /\ clients' = cs
                 /\ database' = "db"
                 /\ lifespan' = [lifespan EXCEPT !.pc = "indexes", !.value = <<TRUE>>]
            ELSE /\ clients' = IF lifespan.url # "localhost" THEN close_failed(cs, c) ELSE cs
                 /\ database' = database
                 /\ lifespan' = IF k < Len(S)
                                THEN [lifespan EXCEPT !.strategy = k + 1]
                                ELSE [lifespan EXCEPT !.pc = "indexes", !.value = <<FALSE>>]
  /\ UNCHANGED <<store_vars, call_vars, http_vars>>

\* close_mongo_connection: if client: client.close().
close_mongo_connection(cs, c) ==
  IF c # 0 THEN [cs EXCEPT ![c].open = FALSE] ELSE cs

\* ----------------------------------------------------------------- main.py
\* lifespan: await setup_conversation_indexes().
LifespanIndexes(created) ==
  /\ lifespan.pc = "indexes"
  /\ indexes' = setup_conversation_indexes(created).idx
  /\ lifespan' = [lifespan EXCEPT !.pc = "model"]
  /\ UNCHANGED <<database, client, clients, conversation_history, now, next_id,
                 call_vars, http_vars>>

\* lifespan from the try to its yield: the model file is not there, the
\* model loads, or the loading raises; then the application serves.
ModelOutcomes == {"not_found", "loaded", "raised"}

LifespanModel(outcome) ==
  /\ lifespan.pc = "model"
  /\ llm_model' = IF outcome = "loaded" THEN "llm" ELSE None
  /\ lifespan' = [lifespan EXCEPT !.pc = "serving", !.model = outcome]
  /\ UNCHANGED <<database, client, clients, store_vars, call_vars, users, req>>

\* lifespan after its yield. The yield of the branch for a missing model
\* file is followed by return; the other yield by the unloading of the model
\* and await close_mongo_connection().
LifespanShutdown ==
  /\ lifespan.pc = "serving"
  /\ lifespan' = [lifespan EXCEPT !.pc = "stopped"]
  /\ IF lifespan.model = "not_found"
     THEN UNCHANGED <<llm_model, clients>>
     ELSE /\ llm_model' = None
          /\ clients' = close_mongo_connection(clients, client)
  /\ UNCHANGED <<database, client, store_vars, call_vars, users, req>>

\* The process starts: nothing connected, nothing loaded.
InitBoot ==
  /\ database = None
  /\ conversation_history = <<>>
  /\ indexes = {}
  /\ now = 0
  /\ next_id = 1
  /\ pending = NoPending
  /\ ret = NoCall
  /\ users = <<>>
  /\ llm_model = None
  /\ req = [r \in Conns |-> Idle]
  /\ client = 0
  /\ clients = <<>>
  /\ \E url \in Urls :
       lifespan = [pc |-> "connect", url |-> url, strategy |-> 1,
                   value |-> <<>>, model |-> "none"]

NextBoot ==
  \/ \E made \in BOOLEAN, pinged \in BOOLEAN : connect_to_mongo(made, pinged)
  \/ \E created \in 0..Len(AllIndexes) : LifespanIndexes(created)
  \/ \E outcome \in ModelOutcomes : LifespanModel(outcome)
  \/ LifespanShutdown

SpecBoot == InitBoot /\ [][NextBoot]_vars

\* ================================================================== claims
\* The documents a call for email e addresses, in insertion order.
OwnerDocs(e) ==
  SelectIdx(conversation_history, Matching(conversation_history, lower(e)), 1)

Projected(docs) == [i \in 1..Len(docs) |-> Project(docs[i])]

LastN(s, n) == SubSeq(s, Len(s) - n + 1, Len(s))

DocById(id) ==
  CHOOSE d \in {conversation_history[i] : i \in 1..Len(conversation_history)} : d._id = id

\* The canonical spelling of an address, written without lower().
FoldChar(c) == IF c = "A" THEN "a" ELSE IF c = "B" THEN "b" ELSE c

Fold(e) == [i \in 1..Len(e) |-> FoldChar(e[i])]

\* C1: after N successful store_message calls for one owner, all N records
\* still stored, get_conversation_history(owner, limit=N) returns exactly
\* those N records in the order they were appended.
C1_AppendOrder ==
  (ret.op = "get" /\ Ok(ret) /\ ret.limit = Len(OwnerDocs(ret.email)))
    => ret.value = Projected(OwnerDocs(ret.email))

\* C2: with limit < N the result is exactly the limit most recently appended
\* records of the owner, oldest first, with non-decreasing timestamps.
C2_MostRecent ==
  (ret.op = "get" /\ Ok(ret) /\ ret.limit < Len(OwnerDocs(ret.email)))
    => /\ ret.value = Projected(LastN(OwnerDocs(ret.email), ret.limit))
       /\ \A i \in 1..(Len(ret.value) - 1) :
            ret.value[i].timestamp <= ret.value[i + 1].timestamp

\* C3: get_conversation_history never returns a record whose retention
\* window has elapsed, also when the TTL monitor has not removed it yet.
C3_NoExpiredReturned ==
  ret.op = "get" => \A i \in 1..Len(ret.ids) : ~Expired(DocById(ret.ids[i]))

\* C6: a call that finds no database, or whose driver call raises, returns
\* its sentinel (an empty list, a zero count with no oldest time, False) and
\* leaves the stored records as they were.
Failed(r) == r.op # "none" /\ (database = None \/ r.raised)

Sentinel(r) ==
  CASE r.op = "get"   -> r.value = <<>>
    [] r.op = "stats" -> r.value = [message_count |-> 0, oldest_message |-> NoTime]
    [] OTHER          -> r.value = FALSE

C6_FailureIsSentinel ==
  [][Failed(ret') => (Sentinel(ret') /\ conversation_history' = conversation_history)]_vars

W6_FailedClearKeepsRecords ==
  /\ ret.op = "clear" /\ ret.raised /\ database # None
  /\ Len(OwnerDocs(ret.email)) = MaxInserts

\* C8: right after clear_conversation_history(owner) has succeeded,
\* get_conversation_history(owner, limit) returns the empty sequence for
\* every limit, however many records the owner had and whatever their age.
C8_ClearThenEmpty ==
  (ret.op = "clear" /\ Ok(ret))
    => \A limit \in 1..MaxLimit :
         \A out \in get_conversation_history(ret.email, limit, FALSE) : out.value = <<>>

W8_ClearedSeveral == ret.op = "clear" /\ Ok(ret) /\ ret.n >= 2 /\ now > 0

\* C9: the owner key is lower-cased on the write and on every read path, so
\* the records appended under any capitalization of an address form one
\* history: a record is stored under the canonical spelling whatever the
\* spelling it was appended with, and a read returns, a clear removes and the
\* statistics count the records of the canonical spelling whatever the
\* spelling of the call.  (What the statistics see depends on the collection
\* alone, and every collection is reached with no call in flight.)
Keyed(e) ==
  {i \in 1..Len(conversation_history) : conversation_history[i].user_email = Fold(e)}

Min(a, b) == IF a < b THEN a ELSE b

C9_OneHistory ==
  /\ \A i \in 1..Len(conversation_history) :
       conversation_history[i].user_email = Fold(conversation_history[i].user_email)
  /\ (ret.op = "store" /\ Ok(ret)) =>
       conversation_history[Len(conversation_history)].user_email = Fold(ret.email)
  /\ (ret.op = "get" /\ Ok(ret)) =>
       /\ {ret.ids[i] : i \in 1..Len(ret.ids)}
            \subseteq {conversation_history[i]._id : i \in Keyed(ret.email)}
       /\ Len(ret.ids) = Min(ret.limit, Cardinality(Keyed(ret.email)))
  /\ (ret.op = "clear" /\ Ok(ret)) => Keyed(ret.email) = {}
  /\ ret.op = "none" =>
       \A e \in Emails :
         /\ stats_count(e) = Cardinality(Keyed(e))
         /\ stats_oldest(e) \subseteq
              {NoTime} \cup {Some(conversation_history[i].timestamp) : i \in Keyed(e)}

\* A read under the capitalized spelling returns the records stored under
\* the canonical one.
W9_BothSpellingsRead ==
  /\ ret.op = "get" /\ Ok(ret) /\ ret.email # Fold(ret.email)
  /\ Len(ret.ids) = MaxInserts

\* ------------------------------------------------------- claims on requests
Registered(token) == token.kind = "jwt" /\ token.sub # <<>> /\ find_user(Fold(token.sub)) # 0

Authenticated(q) == q.user_email # <<>>

FailedStore(q) == \E k \in 1..Len(q.stores) : ~q.stores[k].value

RECURSIVE UserContents(_, _)
UserContents(body, k) ==
  IF k > Len(body) THEN <<>>
  ELSE (IF body[k].role = "user" THEN <<body[k].content>> ELSE <<>>)
         \o UserContents(body, k + 1)

\* C4: a chat request of a registered user that arrives while get_database()
\* returns None is served: it gets past get_current_user and is not
\* answered with the 401 of a failed user lookup.
C4_OutageStillServed ==
  \A r \in Conns :
    (/\ req[r].pc = "done"
     /\ req[r].kind = "chat"
     /\ Registered(req[r].token)
     /\ database = None
     /\ llm_model # None)
    => (Authenticated(req[r]) /\ req[r].status # 401)

\* C5: when clear_conversation_history returns False, the request to
\* DELETE /v1/conversations/clear is not answered with an error status.
C5_ClearFailureNotSurfaced ==
  \A r \in Conns :
    (/\ req[r].pc = "done"
     /\ req[r].kind = "clear"
     /\ Authenticated(req[r])
     /\ ~req[r].success)
    => req[r].status = 200

\* C7: a chat request during which store_message returned False is not
\* ended by it: the store loop goes on, the request is answered only after
\* the model has been invoked, and the failed call has left no record.
C7_StoreFailureNotFatal ==
  [][\A r \in Conns :
       (req'[r].kind = "chat" /\ FailedStore(req'[r]))
       => /\ req'[r].pc \in {"store", "generate", "done"}
          /\ req'[r].pc = "done" => (req'[r].invoked /\ req'[r].status \in {200, 500})
          /\ (/\ Len(req'[r].stores) = Len(req[r].stores) + 1
              /\ ~req'[r].stores[Len(req'[r].stores)].value)
             => conversation_history' = conversation_history]_vars

W7_AnsweredAfterFailedStore ==
  \E r \in Conns :
    /\ req[r].pc = "done"
    /\ req[r].status = 200
    /\ req[r].invoked
    /\ FailedStore(req[r])

\* C10: a chat request writes only its user-role messages: the calls to
\* store_message it has made are, in request order, one per user-role
\* message; every record that enters the collection is the user-role message
\* the loop stands at, written with role "user" for the caller; invoking the
\* model and answering write nothing.
C10_OnlyUserTurnsPersisted ==
  [][/\ \A r \in Conns :
          req'[r].kind = "chat"
          => LET q == req'[r]
                 all == UserContents(q.body, 1)
             IN  /\ Len(q.stores) <= Len(all)
                 /\ \A k \in 1..Len(q.stores) : q.stores[k].content = all[k]
                 /\ q.invoked => Len(q.stores) = Len(all)
     /\ next_id' # next_id
          => /\ next_id' = next_id + 1
             /\ Len(conversation_history') = Len(conversation_history) + 1
             /\ \E r \in Conns :
                  LET q == req[r]
                      d == conversation_history'[Len(conversation_history')]
                  IN  /\ q.pc = "store"
                      /\ q.body[q.i].role = "user"
                      /\ d.role = "user"
                      /\ d.content = q.body[q.i].content
                      /\ d.user_email = q.user_email
                      /\ req'[r].stores = Append(q.stores, [content |-> d.content,
                                                            value |-> TRUE])
     /\ \A i \in 1..Len(conversation_history') : conversation_history'[i].role = "user"]_vars

W10_MixedRequestPersisted ==
  \E r \in Conns :
    /\ req[r].pc = "done"
    /\ req[r].status = 200
    /\ \E k \in 1..Len(req[r].body) : req[r].body[k].role = "assistant"
    /\ Len(req[r].stores) > 1
    /\ ~FailedStore(req[r])
    /\ Len(conversation_history) = Len(req[r].stores)

Assembled(q) == q.kind = "chat" /\ q.all_messages # <<>>

\* C13: the assembled sequence of a chat request holds at most one
\* enrichment record.
C13_AtMostOneEnrichment ==
  \A r \in Conns :
    Assembled(req[r])
    => Cardinality({k \in 1..Len(req[r].all_messages) :
                      \E j \in Located(req[r].body) :
                        req[r].all_messages[k] = JourneyMsg(req[r].body[j].content)}) <= 1

\* C14: the enrichment record of a user message whose journey lookup
\* succeeded is the element immediately before that message in the assembled
\* sequence.
C14_EnrichmentBeforeItsMessage ==
  \A r \in Conns :
    Assembled(req[r])
    => LET a == req[r].all_messages
           b == req[r].body
       IN  \A k \in Located(b) :
             req[r].journey[k] = "ok"
             => a[Len(a) - Len(b) + k - 1] = JourneyMsg(b[k].content)

\* C15: a chat request whose journey lookup failed, by returning nothing or
\* by raising, is served all the same: the model is invoked for it.
C15_EnrichmentFailureSwallowed ==
  \A r \in Conns :
    (/\ req[r].pc = "done"
     /\ req[r].kind = "chat"
     /\ \E k \in Located(req[r].body) : req[r].journey # <<>> /\ req[r].journey[k] # "ok")
    => req[r].invoked

\* C16: a record is eligible for removal exactly when one retention window
\* has passed since its timestamp, the field the reads are ordered by.
C16_LifetimeFromTimestamp ==
  \A i \in 1..Len(conversation_history) :
    Expired(conversation_history[i])
      <=> conversation_history[i].timestamp + CONVERSATION_TTL_MINUTES <= now

Ids(coll) == {coll[i]._id : i \in 1..Len(coll)}

\* C17: in every step a record that stays is unchanged in every field, a
\* record that enters is new, and a record that goes either belongs to the
\* owner a successful clear was called for or has expired under the TTL index.
C17_ImmutableRecords ==
  [][/\ \A i \in 1..Len(conversation_history') :
          LET d == conversation_history'[i]
          IN  IF d._id \in Ids(conversation_history)
              THEN \E j \in 1..Len(conversation_history) : conversation_history[j] = d
              ELSE d._id = next_id /\ next_id' = next_id + 1
     /\ \A j \in 1..Len(conversation_history) :
          LET d == conversation_history[j]
          IN  d._id \notin Ids(conversation_history')
              => \/ ret'.op = "clear" /\ Ok(ret') /\ Fold(ret'.email) = d.user_email
                 \/ ret'.op = "none" /\ "created_at_ttl" \in indexes /\ Expired(d)]_vars

W17_OneGoneOneKept ==
  /\ Len(conversation_history) > 0
  /\ Len(conversation_history) < next_id - 1
  /\ \E i \in 1..Len(conversation_history) : conversation_history[i].created_at < now

\* C18: a clear that succeeded leaves exactly the records of the other
\* owners, each unchanged and in place, whatever the age and the number of
\* the records of the owner it was called for.
C18_ClearRemovesOwnerOnly ==
  [][(ret'.op = "clear" /\ Ok(ret'))
     => /\ conversation_history' =
             SelectSeq(conversation_history, LAMBDA d : d.user_email # Fold(ret'.email))
        /\ ret'.n = Len(conversation_history) - Len(conversation_history')]_vars

W18_ClearedBesideOtherOwner ==
  /\ ret.op = "clear" /\ Ok(ret)
  /\ ret.n >= 1
  /\ Len(conversation_history) >= 1

\* C20: two records of one result of get_conversation_history that carry
\* the same timestamp stand in the order they were inserted in.
C20_TiesInInsertionOrder ==
  (ret.op = "get" /\ Ok(ret))
  => \A i, j \in 1..Len(ret.ids) :
       (i < j /\ ret.value[i].timestamp = ret.value[j].timestamp)
       => ret.ids[i] < ret.ids[j]

\* Every read of every user, at any limit, is in non-decreasing timestamp
\* order and has as many records as the limit and the owner's records allow.
SortedReads ==
  \A u \in 1..Len(users), limit \in 1..MaxLimit :
    \A h \in get_conversation_history(users[u].email, limit, FALSE) :
      /\ Len(h.value) = Min(limit, Cardinality(Keyed(users[u].email)))
      /\ \A k \in 1..(Len(h.value) - 1) : h.value[k].timestamp <= h.value[k + 1].timestamp

\* The requests whose store_message call returns True in this step.
Stored ==
  {r \in DOMAIN req :
     /\ Len(req'[r].stores) = Len(req[r].stores) + 1
     /\ req'[r].stores[Len(req'[r].stores)].value}

\* C19: with chat requests running in parallel, a store_message that
\* returns True adds exactly one record, new, keyed by the owner the request
\* was authenticated for, with the content and the timestamp of that call,
\* and leaves every other record in place; no other step adds a record; a
\* record goes only by expiry; every read of the collection a step leaves is
\* in non-decreasing timestamp order.
C19_ConcurrentAppends ==
  [][/\ Cardinality(Stored) <= 1
     /\ \A r \in Stored :
          LET d == conversation_history'[Len(conversation_history')]
          IN  /\ conversation_history' = Append(conversation_history, d)
              /\ d._id \notin Ids(conversation_history)
              /\ d.user_email = Fold(req[r].token.sub)
              /\ d.role = "user"
              /\ d.content = req[r].body[req[r].i].content
              /\ d.timestamp = req[r].doc.timestamp
     /\ Stored = {}
          => \A i \in 1..Len(conversation_history') :
               \E j \in 1..Len(conversation_history) :
                 conversation_history[j] = conversation_history'[i]
     /\ \A j \in 1..Len(conversation_history) :
          conversation_history[j]._id \notin Ids(conversation_history')
          => Expired(conversation_history[j])
     /\ Cardinality(Ids(conversation_history')) = Len(conversation_history')
     /\ conversation_history' # conversation_history => SortedReads']_vars

W19_RacedAppends ==
  /\ \A r \in DOMAIN req :
       /\ req[r].user_email = <<"a", "@", "x">>
       /\ \E k \in 1..Len(req[r].stores) : req[r].stores[k].value
  /\ Cardinality(DOMAIN req) > 1
  /\ Len(conversation_history) > 1
  /\ conversation_history[1].timestamp > conversation_history[2].timestamp

\* C21: a call of setup_conversation_indexes never changes a record and
\* never removes an index; one that returns True leaves exactly the three
\* indexes, whatever calls came before it; with no database it returns False
\* and leaves the indexes as they were.
C21_SetupIdempotent ==
  [][ret'.op = "setup"
     => /\ conversation_history' = conversation_history
        /\ indexes \subseteq indexes'
        /\ ret'.value => indexes' = {AllIndexes[k] : k \in 1..Len(AllIndexes)}
        /\ ret'.value <=> (database # None /\ ~ret'.raised)
        /\ database = None => indexes' = indexes]_vars

W21_CalledAgainOverRecords ==
  /\ ret.op = "setup" /\ database # None /\ ret.raised
  /\ indexes = {AllIndexes[k] : k \in 1..Len(AllIndexes)}
  /\ Len(conversation_history) > 0

MinTime(I) ==
  CHOOSE t \in {conversation_history[i].timestamp : i \in I} :
    \A i \in I : t <= conversation_history[i].timestamp

\* C22: get_conversation_stats returns, for an owner with no record, a zero
\* count and no oldest time, and for an owner with records their number and
\* their least timestamp.
C22_StatsOfStoredRecords ==
  (ret.op = "stats" /\ Ok(ret))
  => LET K == Keyed(ret.email)
     IN  /\ ret.value.message_count = Cardinality(K)
         /\ ret.value.oldest_message = IF K = {} THEN NoTime ELSE Some(MinTime(K))

\* C30: the pair get_conversation_stats returns is consistent: the count
\* is zero exactly when there is no oldest time.
C30_StatsPairConsistent ==
  ret.op = "stats"
  => (ret.value.message_count = 0 <=> ret.value.oldest_message = NoTime)


\* The positions of s that hold a message of the given role and content.
Occurrences(s, role, content) ==
  Cardinality({k \in 1..Len(s) : s[k].role = role /\ s[k].content = content})

\* C29: chat_completions reads the history before it stores the request's
\* user turns and stores them before it invokes the model. The step that
\* reads takes the history from the collection while the request has stored
\* nothing, and writes nothing; the storing steps come before the invocation
\* and leave what was assembled alone; the step that invokes the model has
\* every user turn of the request behind it, builds a prompt in which each
\* user turn is there once for the request plus once for each history record
\* read, and, answering 200 or 500, leaves the collection as the stores left
\* it.
C29_ReadStoreInvoke ==
  [][\A r \in Conns :
       LET q == req[r]
           p == req'[r]
       IN  /\ (q.pc = "chat" /\ p.pc # "chat")
                => /\ conversation_history' = conversation_history
                   /\ p.stores = <<>>
                   /\ ~p.invoked
                   /\ \A k \in 1..Len(p.history) :
                        \E i \in 1..Len(conversation_history) :
                          /\ conversation_history[i].user_email = Fold(q.user_email)
                          /\ Project(conversation_history[i]) = p.history[k]
           /\ (q.pc = "store" /\ p # q)
                => /\ ~p.invoked
                   /\ p.all_messages = q.all_messages
                   /\ p.history = q.history
                   /\ Len(p.stores) = Len(q.stores) + 1
                   /\ p.stores[Len(p.stores)].value
                        => /\ Len(conversation_history') = Len(conversation_history) + 1
                           /\ conversation_history'[Len(conversation_history')].content
                                = p.stores[Len(p.stores)].content
           /\ (p.invoked /\ ~q.invoked)
                => /\ conversation_history' = conversation_history
                   /\ Len(q.stores) = Len(UserContents(q.body, 1))
                   /\ p.status \in {200, 500}
                   /\ \A k \in 1..Len(q.body) :
                        q.body[k].role = "user"
                        => Occurrences(p.prompt, "user", q.body[k].content)
                             = Occurrences(q.body, "user", q.body[k].content)
                               + Occurrences(q.history, "user", q.body[k].content)]_vars

\* A request that read a history, stored its user turn and then failed in
\* the model: answered 500, the turn is in the collection.
W29_FailedAfterStoring ==
  \E r \in Conns :
    /\ req[r].pc = "done" /\ req[r].kind = "chat"
    /\ req[r].status = 500 /\ req[r].invoked
    /\ req[r].history # <<>>
    /\ req[r].stores # <<>> /\ ~FailedStore(req[r])
    /\ \A k \in 1..Len(req[r].stores) :
         \E i \in 1..Len(conversation_history) :
           /\ conversation_history[i].user_email = req[r].user_email
           /\ conversation_history[i].content = req[r].stores[k].content
           /\ conversation_history[i].timestamp >= req[r].history[1].timestamp

\* The place of a strategy in the order of its URL's attempts.
StrategyIndex(url, name) ==
  CHOOSE k \in 1..Len(Strategies(url)) : Strategies(url)[k] = name

\* C27: connect_to_mongo for an Atlas URL makes its clients in the fixed
\* order of the strategies, makes none after the client whose ping
\* succeeded and then has returned True, has closed every failed client by
\* the time it tries the next strategy or returns, has returned False when
\* all strategies failed, and the global database is set only when the
\* global client is one whose ping succeeded.
C27_ConnectStrategies ==
  lifespan.url # "localhost"
  => /\ \A i \in 1..Len(clients), j \in 1..Len(clients) :
          i < j => StrategyIndex(lifespan.url, clients[i].strategy)
                     < StrategyIndex(lifespan.url, clients[j].strategy)
     /\ \A k \in 1..Len(clients) :
          clients[k].pinged => k = Len(clients) /\ lifespan.value = <<TRUE>>
     /\ \A k \in 1..Len(clients) : ~clients[k].pinged => ~clients[k].open
     /\ (lifespan.pc # "connect" /\ \A k \in 1..Len(clients) : ~clients[k].pinged)
          => lifespan.value = <<FALSE>>
     /\ database # None => client # 0 /\ clients[client].pinged

\* C28: when the lifespan has ended, the client whose ping succeeded at
\* startup is closed, however the model loading went.
C28_ClosedAtShutdown ==
  lifespan.pc = "stopped"
  => \A k \in 1..Len(clients) : clients[k].pinged => ~clients[k].open

\* C23: a POST /v1/map/generate of an authenticated user, with the Google
\* Maps key set, is answered 200 with a map_image_url and with zoom_level,
\* origin and destination as sent when its zoom is absent or within 1..21,
\* and 400 'Zoom level must be between 1 and 21' when its zoom is below 1 or
\* above 21.
C23_MapGenerate ==
  \A r \in Conns :
    LET q == req[r]
        z == q.map.zoom
    IN  (q.kind = "map" /\ q.pc = "done" /\ Authenticated(q) /\ q.maps.key)
        => IF z = <<>> \/ (1 <= z[1] /\ z[1] <= 21)
           THEN /\ q.status = 200
                /\ q.response.map_image_url # <<>>
                /\ q.response.zoom_level = z
                /\ q.response.origin = q.map.origin
                /\ q.response.destination = q.map.destination
           ELSE /\ q.status = 400
                /\ q.response.detail = "Zoom level must be between 1 and 21"

Clamp(z) == IF z < 1 THEN 1 ELSE IF z > 21 THEN 21 ELSE z

\* C24: generate_map_image_url called with a zoom argument, the Google Maps
\* key set, returns a URL whose zoom parameter is the argument brought into
\* 1..21: 1 for a zoom below 1, 21 for a zoom above 21, the zoom itself
\* inside the range.
C24_ZoomClamped ==
  (ret.op = "map_url" /\ ret.zoom # <<>> /\ ret.key)
  => /\ ~ret.raised
     /\ \E k \in 1..Len(ret.value) :
          /\ ret.value[k].name = "zoom"
          /\ ret.value[k].value = <<Clamp(ret.zoom[1])>>

\* C26: whatever way signup requests interleave, the users collection holds
\* at most one user per address up to capitals, and of the signups for one
\* address at most one is answered 201: a signup for an address that is
\* registered is answered 400 'Email already registered'.
C26_OneUserPerEmail ==
  /\ \A i \in 1..Len(users), j \in 1..Len(users) :
       Fold(users[i].email) = Fold(users[j].email) => i = j
  /\ \A r \in ConcConns, t \in ConcConns :
       (/\ r # t
        /\ req[r].pc = "done" /\ req[t].pc = "done"
        /\ req[r].kind = "signup" /\ req[t].kind = "signup"
        /\ Fold(req[r].email) = Fold(req[t].email)
        /\ req[r].status = 201)
       => /\ req[t].status # 201
          /\ req[t].status = 400 => req[t].response.detail = "Email already registered"

========================================================================
